---- MODULE Spec2Model ----
(***************************************************************************)
(* State-machine model of the realtime connection (connection.py) and the *)
(* realtime channel (realtime_channel.py).  Coroutines are modelled as    *)
(* tasks that run atomically between two awaits (cooperative scheduling   *)
(* on one event loop).  The channel's bare state setter, which no code    *)
(* calls, is not an operation of the model.                                *)
(***************************************************************************)
EXTENDS Integers, Sequences, FiniteSets, TLC

\* ------------------------------------------------------------------ bounds
\* Number of connect attempts (completion handles / transports) ever started.
MaxAttempts == 2
\* Number of connect attempts started after the first one in the behaviours
\* that exercise the channel (Spec).
MaxReconnects == 0

\* ------------------------------------------------------------------ sets
ConnTasks == {"c1", "c2"}
ChanTasks == {"t1", "t2"}
Futures == 1..MaxAttempts

\* ConnectionState (connection.py)
ConnectionState == {"initialized", "connecting", "connected", "closing", "closed"}

\* ChannelState (realtime_channel.py)
ChannelState == {"initialized", "attaching", "attached", "detaching",
                 "detached", "suspended", "failed"}

VARIABLES
    \* RealtimeConnection
    connState,      \* self.__state
    connFuture,     \* self.__connected_future: 0 is None, else a future
    futStatus,      \* each future: "none" (not created), "pending", "ok", "err"
    implPending,    \* connect_impl tasks created and not yet run
    sockets,        \* number of transports opened so far
    sockOpen,       \* the transports that are open
    websocket,      \* self.__websocket: 0 is None, else a transport
    cpc,            \* position of each task calling connect()
    cwait,          \* the future a task is awaiting in connect()
    ccreator,       \* whether the task is in the branch that created the future
    closePc,        \* position of the task calling close()
    closeSock,      \* the transport close() is closing
    \* RealtimeChannel
    chState,        \* self.__state
    stateTimer,     \* self.__state_timer is armed
    timers,         \* the Timer objects created and neither cancelled nor
                    \* expired, each written as the state it was armed in
    attach_resume,  \* self.__attach_resume
    channel_serial, \* self.__channel_serial ("none" is None)
    dataListeners,  \* registrations on self.__message_emitter, in order
    scheduled,      \* emissions on the message emitter not yet delivered
    pc,             \* position of each task calling attach/detach/subscribe
    op,             \* the call the task is in
    note,           \* the ChannelStateChange once_async() resolved with
    \* what the last step did
    opened,         \* connect_impl tasks created by the step
    sent,           \* protocol messages sent by the step
    pubEmit,        \* emissions on the channel's public emitter
    intEmit,        \* emissions on the internal state emitter
    msgEmit,        \* emissions on the message emitter
    invoked,        \* listener invocations made in the step
    ret             \* the call that returned or raised in the step

connVars == <<connState, connFuture, futStatus, implPending, sockets, sockOpen,
              websocket, cpc, cwait, ccreator, closePc, closeSock>>
chanVars == <<chState, stateTimer, timers, attach_resume, channel_serial,
              dataListeners, scheduled, pc, op, note>>
stepVars == <<opened, sent, pubEmit, intEmit, msgEmit, invoked, ret>>
vars == <<connVars, chanVars, stepVars>>

\* A return (outcome "ok") or a raise (outcome "err") of a call; `future` is
\* the future connect() awaited (0: none), `waited` whether attach()/detach()
\* awaited a state change.
NoRet == [task |-> "none", op |-> "none", outcome |-> "none", reason |-> "none",
          future |-> 0, waited |-> FALSE]
Ret(t, o, out, why, f, w) ==
    [task |-> t, op |-> o, outcome |-> out, reason |-> why, future |-> f,
     waited |-> w]

\* What attach()/detach() read of the ChannelStateChange they are resolved with
NoNote == [current |-> "none", reason |-> "none"]
Note(change) == [current |-> change.current, reason |-> change.reason]

\* ------------------------------------------------------------ channel core
\* Flag bits (realtime_channel.py, class Flag)
HAS_PRESENCE == 1
RESUMED == 4

\* has_flag testing that any flag is set
has_flag_any(message_flags, flag) == message_flags > 0

\* has_flag(message_flags, flag) for a flag that is one bit: flags & flag > 0
has_flag(message_flags, flag) == (message_flags \div flag) % 2 = 1

\* The channel's fields together with what the running handler has sent and
\* emitted so far.
Chan == [state |-> chState, timer |-> stateTimer, timers |-> timers,
         resume |-> attach_resume, serial |-> channel_serial, sent |-> <<>>,
         pub |-> <<>>, int |-> <<>>]

ChannelStateChange(previous, current, resumed, reason) ==
    [previous |-> previous, current |-> current, resumed |-> resumed,
     reason |-> reason]

\* A sequence without its i-th element
Without(s, i) == [j \in 1..(Len(s) - 1) |-> IF j < i THEN s[j] ELSE s[j + 1]]

\* __start_state_timer: the Timer created becomes the one the channel refers to
start_state_timer(c) ==
    IF ~c.timer
    THEN [c EXCEPT !.timer = TRUE, !.timers = Append(@, c.state)]
    ELSE c

\* __clear_state_timer: cancels the Timer the channel refers to, the last one
\* created
clear_state_timer(c) ==
    IF c.timer
    THEN [c EXCEPT !.timer = FALSE, !.timers = Without(@, Len(@))]
    ELSE c

\* _attach_impl (with _send_message)
attach_impl(c) ==
    [c EXCEPT !.sent = Append(@, [action |-> "ATTACH", resume |-> c.resume,
                                  serial |-> c.serial])]

\* _detach_impl (with _send_message)
detach_impl(c) ==
    [c EXCEPT !.sent = Append(@, [action |-> "DETACH", resume |-> FALSE,
                                  serial |-> "none"])]

\* _notify_state building the ChannelStateChange after the state is assigned
notify_state_late(c, state, reason, resumed) ==
    LET c1 == clear_state_timer(c)
        change == ChannelStateChange(state, state, resumed, reason)
    IN  IF state = c1.state THEN c1
        ELSE [c1 EXCEPT
                !.resume = IF state \in {"detaching", "failed"} THEN FALSE
                           ELSE IF state = "attached" THEN TRUE ELSE @,
                !.serial = IF state \in {"detached", "suspended", "failed"}
                           THEN "none" ELSE @,
                !.state = state,
                !.pub = Append(@, [event |-> state, change |-> change]),
                !.int = Append(@, [event |-> state, change |-> change])]

\* _notify_state clearing the attach-resume flag on Failed only
notify_state_resume_kept(c, state, reason, resumed) ==
    LET c1 == clear_state_timer(c)
        change == ChannelStateChange(c1.state, state, resumed, reason)
    IN  IF state = c1.state THEN c1
        ELSE [c1 EXCEPT
                !.resume = IF state = "failed" THEN FALSE
                           ELSE IF state = "attached" THEN TRUE ELSE @,
                !.serial = IF state \in {"detached", "suspended", "failed"}
                           THEN "none" ELSE @,
                !.state = state,
                !.pub = Append(@, [event |-> state, change |-> change]),
                !.int = Append(@, [event |-> state, change |-> change])]

\* _notify_state leaving the pending-state timer armed
notify_state_keeps_timer(c, state, reason, resumed) ==
    LET change == ChannelStateChange(c.state, state, resumed, reason)
    IN  IF state = c.state THEN c
        ELSE [c EXCEPT
                !.resume = IF state \in {"detaching", "failed"} THEN FALSE
                           ELSE IF state = "attached" THEN TRUE ELSE @,
                !.serial = IF state \in {"detached", "suspended", "failed"}
                           THEN "none" ELSE @,
                !.state = state,
                !.pub = Append(@, [event |-> state, change |-> change]),
                !.int = Append(@, [event |-> state, change |-> change])]

\* _notify_state
notify_state(c, state, reason, resumed) ==
    LET c1 == clear_state_timer(c)
        change == ChannelStateChange(c1.state, state, resumed, reason)
    IN  IF state = c1.state THEN c1
        ELSE [c1 EXCEPT
                !.resume = IF state \in {"detaching", "failed"} THEN FALSE
                           ELSE IF state = "attached" THEN TRUE ELSE @,
                !.serial = IF state \in {"detached", "suspended", "failed"}
                           THEN "none" ELSE @,
                !.state = state,
                !.pub = Append(@, [event |-> state, change |-> change]),
                !.int = Append(@, [event |-> state, change |-> change])]

\* _check_pending_state without the test of the connection's state
check_pending_state_unconditional(c, connection_state) ==
    IF c.state = "attaching" THEN attach_impl(start_state_timer(c))
    ELSE IF c.state = "detaching" THEN detach_impl(start_state_timer(c))
    ELSE c

\* _check_pending_state
check_pending_state(c, connection_state) ==
    IF connection_state # "connected" THEN c
    ELSE IF c.state = "attaching" THEN attach_impl(start_state_timer(c))
    ELSE IF c.state = "detaching" THEN detach_impl(start_state_timer(c))
    ELSE c

\* _request_state
request_state(c, state, connection_state) ==
    check_pending_state(notify_state(c, state, "none", "False"), connection_state)

\* __timeout_pending_state retrying the pending request, never giving it up
timeout_pending_state_retry(c, connection_state) == check_pending_state(c, connection_state)

\* __timeout_pending_state
timeout_pending_state(c, connection_state) ==
    IF c.state = "attaching"
    THEN notify_state(c, "suspended", "attach_timeout", "False")
    ELSE IF c.state = "detaching"
    THEN notify_state(c, "attached", "detach_timeout", "False")
    ELSE check_pending_state(c, connection_state)

\* EventEmitter.once_async on the internal state emitter: every task waiting
\* when the handler emitted is resolved with the first emission and
\* deregistered; `p` is the tasks' positions after the handler's own change.
Deliver(c, p) ==
    /\ pc' = [t \in ChanTasks |->
                IF pc[t] = "wait" /\ c.int # <<>> THEN "ready" ELSE p[t]]
    /\ note' = [t \in ChanTasks |->
                IF pc[t] = "wait" /\ c.int # <<>> THEN Note(c.int[1].change) ELSE note[t]]

\* ---------------------------------------------------------- message emitter
\* Listeners whose invocation raises
Raising == {"L1"}

\* EventEmitter.on(event, listener) and on(listener) (event "*")
on(regs, event, listener) ==
    IF \E i \in DOMAIN regs : regs[i] = <<event, listener>>
    THEN regs
    ELSE Append(regs, <<event, listener>>)

\* EventEmitter.off()
off_all(regs) == <<>>

\* EventEmitter.off(listener)
off_listener(regs, listener) == SelectSeq(regs, LAMBDA r : r[2] # listener)

\* EventEmitter.off(event, listener)
off_pair(regs, event, listener) ==
    SelectSeq(regs, LAMBDA r : r # <<event, listener>>)

\* EventEmitter._emit: the registrations an emission of `name` is for, those
\* for the name and the catch-all ones, in registration order
listeners_for(regs, name) ==
    SelectSeq(regs, LAMBDA r : r[1] = name \/ r[1] = "*")

\* EventEmitter._emit(name, message): an emission and the registrations it is for
emit(regs, name) == [name |-> name, regs |-> listeners_for(regs, name)]

\* EventEmitter._emit invoking the listeners within the call
emit_inline(name) == FALSE

\* EventEmitter._emit: whether the delivery is deferred to the event loop
emit_defers(name) == TRUE

\* Delivery of an emission that the first raising listener interrupts
invoke_until_raise(e) ==
    LET stop == IF \E i \in DOMAIN e.regs : e.regs[i][2] \in Raising
                THEN CHOOSE i \in DOMAIN e.regs :
                        /\ e.regs[i][2] \in Raising
                        /\ \A j \in 1..(i - 1) : e.regs[j][2] \notin Raising
                ELSE Len(e.regs)
    IN  [i \in 1..stop |->
            [listener |-> e.regs[i][2], on |-> e.regs[i][1], name |-> e.name,
             raised |-> e.regs[i][2] \in Raising]]

\* Delivery of an emission: every listener it is for is invoked, in order; what
\* a listener raises is logged and discarded
invoke(e) ==
    [i \in DOMAIN e.regs |->
        [listener |-> e.regs[i][2], on |-> e.regs[i][1], name |-> e.name,
         raised |-> e.regs[i][2] \in Raising]]

\* The invocations of a sequence of emissions, one emission after the other
RECURSIVE invoke_each(_)
invoke_each(es) ==
    IF es = <<>> THEN <<>> ELSE invoke(Head(es)) \o invoke_each(Tail(es))

\* The step emits nothing on the message emitter and runs no listener.
NoEmit == msgEmit' = <<>> /\ invoked' = <<>> /\ UNCHANGED scheduled

\* The handler's result becomes the channel's state.
Commit(c) ==
    /\ chState' = c.state
    /\ stateTimer' = c.timer
    /\ timers' = c.timers
    /\ attach_resume' = c.resume
    /\ channel_serial' = c.serial
    /\ sent' = c.sent
    /\ pubEmit' = c.pub
    /\ intEmit' = c.int

ChanUnchanged == Commit(Chan) /\ UNCHANGED <<dataListeners, pc, op, note>>

\* -------------------------------------------------------------- connection
Init ==
    /\ connState = "initialized"
    /\ connFuture = 0
    /\ futStatus = [f \in Futures |-> "none"]
    /\ implPending = 0
    /\ sockets = 0
    /\ sockOpen = {}
    /\ websocket = 0
    /\ cpc = [t \in ConnTasks |-> "idle"]
    /\ cwait = [t \in ConnTasks \cup ChanTasks |-> 0]
    /\ ccreator = [t \in ConnTasks |-> FALSE]
    /\ closePc = "idle"
    /\ closeSock = 0
    /\ chState = "initialized"
    /\ stateTimer = FALSE
    /\ timers = <<>>
    /\ attach_resume = FALSE
    /\ channel_serial = "none"
    /\ dataListeners = <<>>
    /\ scheduled = <<>>
    /\ pc = [t \in ChanTasks |-> "idle"]
    /\ op = [t \in ChanTasks |-> "none"]
    /\ note = [t \in ChanTasks |-> NoNote]
    /\ opened = 0
    /\ sent = <<>>
    /\ pubEmit = <<>>
    /\ intEmit = <<>>
    /\ msgEmit = <<>>
    /\ invoked = <<>>
    /\ ret = NoRet

\* asyncio.Future(): the next future not yet created
NewFuture == CHOOSE f \in Futures :
                futStatus[f] = "none" /\ \A g \in Futures : g < f => futStatus[g] # "none"

\* The connection's state changed: the channel re-checks its pending state.
on_connection_state(c, connection_state) == check_pending_state(c, connection_state)

\* connect() without the check for an attempt under way
connect_never_joins(state) == FALSE

\* connect(): whether the call joins the attempt that is under way
connect_joins(state) == state = "connecting"

\* connect(), up to its first await or its return
connect(t) ==
    /\ cpc[t] = "idle"
    /\ IF connState = "connected"
       THEN /\ ret' = Ret(t, "connect", "ok", "none", 0, FALSE)
            /\ opened' = 0
            /\ UNCHANGED connVars
       ELSE IF connect_joins(connState)
       THEN IF connFuture = 0
            THEN /\ ret' = Ret(t, "connect", "ok", "none", 0, FALSE)
                 /\ opened' = 0
                 /\ UNCHANGED connVars
            ELSE /\ cpc' = [cpc EXCEPT ![t] = "await"]
                 /\ cwait' = [cwait EXCEPT ![t] = connFuture]
                 /\ ccreator' = [ccreator EXCEPT ![t] = FALSE]
                 /\ ret' = NoRet
                 /\ opened' = 0
                 /\ UNCHANGED <<connState, connFuture, futStatus, implPending,
                                sockets, sockOpen, websocket, closePc, closeSock>>
       ELSE /\ \E f \in Futures : futStatus[f] = "none"
            /\ connState' = "connecting"
            /\ connFuture' = NewFuture
            /\ futStatus' = [futStatus EXCEPT ![NewFuture] = "pending"]
            /\ implPending' = implPending + 1
            /\ opened' = 1
            /\ cpc' = [cpc EXCEPT ![t] = "await"]
            /\ cwait' = [cwait EXCEPT ![t] = NewFuture]
            /\ ccreator' = [ccreator EXCEPT ![t] = TRUE]
            /\ ret' = NoRet
            /\ UNCHANGED <<sockets, sockOpen, websocket, closePc, closeSock>>
    /\ NoEmit
    /\ ChanUnchanged

\* connect(), from the await of the future to the return or the raise
connect_awaited(t) ==
    /\ cpc[t] = "await"
    /\ futStatus[cwait[t]] \in {"ok", "err"}
    /\ cpc' = [cpc EXCEPT ![t] = "idle"]
    /\ cwait' = [cwait EXCEPT ![t] = 0]
    /\ ccreator' = [ccreator EXCEPT ![t] = FALSE]
    /\ opened' = 0
    /\ NoEmit
    /\ UNCHANGED <<connFuture, futStatus, implPending, sockets, sockOpen,
                   websocket, closePc, closeSock, dataListeners, op>>
    /\ IF futStatus[cwait[t]] = "ok"
       THEN /\ ret' = Ret(t, "connect", "ok", "none", cwait[t], FALSE)
            /\ IF ccreator[t]
               THEN /\ connState' = "connected"
                    /\ LET c == on_connection_state(Chan, "connected")
                       IN  Commit(c) /\ Deliver(c, pc)
               ELSE /\ UNCHANGED connState
                    /\ Commit(Chan) /\ UNCHANGED <<pc, note>>
       ELSE /\ ret' = Ret(t, "connect", "err", "auth", cwait[t], FALSE)
            /\ UNCHANGED connState
            /\ Commit(Chan) /\ UNCHANGED <<pc, note>>

\* close(), up to the await of websocket.close() or, with no websocket, its end
close ==
    /\ closePc = "idle"
    /\ IF websocket # 0
       THEN /\ connState' = "closing"
            /\ closePc' = "closing"
            /\ closeSock' = websocket
            /\ ret' = NoRet
       ELSE /\ connState' = "closed"
            /\ ret' = Ret("closer", "close", "ok", "none", 0, FALSE)
            /\ UNCHANGED <<closePc, closeSock>>
    /\ opened' = 0
    /\ NoEmit
    /\ UNCHANGED <<connFuture, futStatus, implPending, sockets, sockOpen,
                   websocket, cpc, cwait, ccreator>>
    /\ ChanUnchanged

\* close(), after websocket.close() has completed
close_awaited ==
    /\ closePc = "closing"
    /\ closePc' = "idle"
    /\ sockOpen' = sockOpen \ {closeSock}
    /\ closeSock' = 0
    /\ connState' = "closed"
    /\ ret' = Ret("closer", "close", "ok", "none", 0, FALSE)
    /\ opened' = 0
    /\ NoEmit
    /\ UNCHANGED <<connFuture, futStatus, implPending, sockets, websocket,
                   cpc, cwait, ccreator>>
    /\ ChanUnchanged

\* connect_impl: the transport opens and the read loop starts
connect_impl ==
    /\ implPending > 0
    /\ implPending' = implPending - 1
    /\ sockets' = sockets + 1
    /\ sockOpen' = sockOpen \cup {sockets + 1}
    /\ websocket' = sockets + 1
    /\ ret' = NoRet
    /\ opened' = 0
    /\ NoEmit
    /\ UNCHANGED <<connState, connFuture, futStatus, cpc, cwait, ccreator,
                   closePc, closeSock>>
    /\ ChanUnchanged

\* ws_read_loop, one frame: action 4 (CONNECTED) or 9 (ERROR)
ws_read_loop(action, nonfatal) ==
    /\ sockOpen # {}
    /\ IF connFuture # 0 /\ (action = 4 \/ (action = 9 /\ nonfatal = FALSE))
       THEN /\ futStatus' = [futStatus EXCEPT
                               ![connFuture] = IF action = 4 THEN "ok" ELSE "err"]
            /\ connFuture' = 0
       ELSE UNCHANGED <<futStatus, connFuture>>
    /\ ret' = NoRet
    /\ opened' = 0
    /\ NoEmit
    /\ UNCHANGED <<connState, implPending, sockets, sockOpen, websocket, cpc,
                   cwait, ccreator, closePc, closeSock>>
    /\ ChanUnchanged

Connect == \E t \in ConnTasks : connect(t)
ConnectResume == \E t \in ConnTasks : connect_awaited(t)
Close == close
CloseResume == close_awaited
ConnectImpl == connect_impl
RecvConnected == ws_read_loop(4, FALSE)
RecvError == \E nonfatal \in BOOLEAN : ws_read_loop(9, nonfatal)

NextConn ==
    \/ Connect
    \/ ConnectResume
    \/ Close
    \/ CloseResume
    \/ ConnectImpl
    \/ RecvConnected
    \/ RecvError

SpecConn == Init /\ [][NextConn]_vars

\* ----------------------------------------------------------------- channel
ConnUnchanged == UNCHANGED <<connState, connFuture, futStatus, implPending,
                             sockets, sockOpen, websocket, cpc, ccreator,
                             closePc, closeSock>>

Returns(t, o, out, why, w) ==
    /\ ret' = Ret(t, o, out, why, 0, w)
    /\ op' = [op EXCEPT ![t] = "none"]

\* attach() without the RTL4a check
attach_never_noop(state) == FALSE

\* attach(), RTL4a: nothing to do in this state
attach_is_noop(state) == state = "attached"

\* attach() requesting the Attaching state whatever the state is
attach_requests_always(state) == TRUE

\* attach(): whether the Attaching state is requested from this state
attach_requests(state) == state # "attaching"

\* attach(): the outcome and the reason raised for the state change awaited
attach_result(change) ==
    IF change.current \in {"suspended", "failed"}
    THEN <<"err", change.reason>>
    ELSE <<"ok", "none">>

\* attach(), up to the await of once_async() or the return or raise before it;
\* `o` is "attach", or "subscribe" when subscribe() makes the call
attach(t, o) ==
    IF attach_is_noop(chState)
    THEN /\ Commit(Chan)
         /\ Returns(t, o, "ok", "none", FALSE)
         /\ UNCHANGED <<pc, note>>
    ELSE IF connState \notin {"connecting", "connected"}
    THEN /\ Commit(Chan)
         /\ Returns(t, o, "err", "invalid_state", FALSE)
         /\ UNCHANGED <<pc, note>>
    ELSE LET c == IF attach_requests(chState)
                  THEN request_state(Chan, "attaching", connState)
                  ELSE Chan
         IN  /\ Commit(c)
             /\ Deliver(c, [pc EXCEPT ![t] = "wait"])
             /\ op' = [op EXCEPT ![t] = o]
             /\ ret' = NoRet

\* attach(), from the await of once_async() to the return or the raise
attach_awaited(t) ==
    /\ pc[t] = "ready"
    /\ op[t] \in {"attach", "subscribe"}
    /\ pc' = [pc EXCEPT ![t] = "idle"]
    /\ note' = [note EXCEPT ![t] = NoNote]
    /\ Returns(t, op[t], attach_result(note[t])[1], attach_result(note[t])[2], TRUE)
    /\ Commit(Chan)
    /\ opened' = 0
    /\ NoEmit
    /\ UNCHANGED <<cwait, dataListeners>>
    /\ ConnUnchanged

Attach(t) ==
    /\ pc[t] = "idle"
    /\ attach(t, "attach")
    /\ opened' = 0
    /\ NoEmit
    /\ UNCHANGED <<cwait, dataListeners>>
    /\ ConnUnchanged

\* subscribe(event, listener) and subscribe(listener) (event "*")
subscribe(t, event, listener) ==
    /\ pc[t] = "idle"
    /\ dataListeners' = on(dataListeners, event, listener)
    /\ attach(t, "subscribe")
    /\ opened' = 0
    /\ NoEmit
    /\ UNCHANGED cwait
    /\ ConnUnchanged

\* unsubscribe() removing the listener from every event in all its forms
unsubscribed_everywhere(regs, event, listener) ==
    IF listener = "none" THEN off_all(regs)
    ELSE off_listener(regs, listener)

\* unsubscribe(): the registrations left by unsubscribe() (listener "none"),
\* unsubscribe(listener) (event "*") and unsubscribe(event, listener)
unsubscribed(regs, event, listener) ==
    IF listener = "none" THEN off_all(regs)
    ELSE IF event # "*" THEN off_pair(regs, event, listener)
    ELSE off_listener(regs, listener)

\* unsubscribe(*args)
unsubscribe(event, listener) ==
    /\ dataListeners' = unsubscribed(dataListeners, event, listener)
    /\ Commit(Chan)
    /\ ret' = Ret("none", "unsubscribe", "ok", "none", 0, FALSE)
    /\ opened' = 0
    /\ NoEmit
    /\ UNCHANGED <<cwait, pc, op, note>>
    /\ ConnUnchanged

\* detach() negotiating the detach of a Suspended channel with the server
detach_never_direct(state) == FALSE

\* detach(): from this state the channel goes to Detached with no round trip
detach_is_direct(state) == state = "suspended"

\* detach() raising only for a Suspended or Failed outcome, as attach() does
detach_result_lenient(change) ==
    IF change.current \in {"suspended", "failed"}
    THEN <<"err", change.reason>>
    ELSE <<"ok", "none">>

\* detach() without the case of a subsequent attach
detach_result_no_conflict(change) ==
    IF change.current = "detached" THEN <<"ok", "none">>
    ELSE <<"err", change.reason>>

\* detach(): the outcome and the reason raised for the state change awaited
detach_result(change) ==
    IF change.current = "detached" THEN <<"ok", "none">>
    ELSE IF change.current = "attaching" THEN <<"err", "superseded">>
    ELSE <<"err", change.reason>>

\* detach(), up to its first await or the return or raise before it
detach(t) ==
    /\ pc[t] = "idle"
    /\ opened' = 0
    /\ NoEmit
    /\ UNCHANGED dataListeners
    /\ ConnUnchanged
    /\ IF connState = "closing"
       THEN /\ Commit(Chan)
            /\ Returns(t, "detach", "err", "invalid_state", FALSE)
            /\ UNCHANGED <<pc, note, cwait>>
       ELSE IF chState \in {"initialized", "detached"}
       THEN /\ Commit(Chan)
            /\ Returns(t, "detach", "ok", "none", FALSE)
            /\ UNCHANGED <<pc, note, cwait>>
       ELSE IF detach_is_direct(chState)
       THEN LET c == notify_state(Chan, "detached", "none", "False")
            IN  /\ Commit(c)
                /\ Deliver(c, pc)
                /\ Returns(t, "detach", "ok", "none", FALSE)
                /\ UNCHANGED cwait
       ELSE IF chState = "failed"
       THEN /\ Commit(Chan)
            /\ Returns(t, "detach", "err", "invalid_state", FALSE)
            /\ UNCHANGED <<pc, note, cwait>>
       ELSE LET c == request_state(Chan, "detaching", connState)
                joins == connState = "connecting" /\ connFuture # 0
            IN  /\ Commit(c)
                /\ Deliver(c, [pc EXCEPT ![t] = IF joins THEN "connwait" ELSE "wait"])
                /\ cwait' = [cwait EXCEPT ![t] = IF joins THEN connFuture ELSE 0]
                /\ op' = [op EXCEPT ![t] = "detach"]
                /\ ret' = NoRet

\* detach(), from the await of connect() to the await of once_async()
detach_connected(t) ==
    /\ pc[t] = "connwait"
    /\ futStatus[cwait[t]] \in {"ok", "err"}
    /\ cwait' = [cwait EXCEPT ![t] = 0]
    /\ IF futStatus[cwait[t]] = "ok"
       THEN /\ pc' = [pc EXCEPT ![t] = "wait"]
            /\ ret' = NoRet
            /\ UNCHANGED op
       ELSE /\ pc' = [pc EXCEPT ![t] = "idle"]
            /\ Returns(t, "detach", "err", "auth", FALSE)
    /\ Commit(Chan)
    /\ opened' = 0
    /\ NoEmit
    /\ UNCHANGED <<note, dataListeners>>
    /\ ConnUnchanged

\* detach(), from the await of once_async() to the return or the raise
detach_awaited(t) ==
    /\ pc[t] = "ready"
    /\ op[t] = "detach"
    /\ pc' = [pc EXCEPT ![t] = "idle"]
    /\ note' = [note EXCEPT ![t] = NoNote]
    /\ Returns(t, "detach", detach_result(note[t])[1], detach_result(note[t])[2], TRUE)
    /\ Commit(Chan)
    /\ opened' = 0
    /\ NoEmit
    /\ UNCHANGED <<cwait, dataListeners>>
    /\ ConnUnchanged

\* Inbound protocol messages for the channel
Message(action, flags, error, serial, names) ==
    [action |-> action, flags |-> flags, error |-> error,
     channelSerial |-> serial, names |-> names]

\* _on_message emitting the first entry of the payload only
message_names_first(msg) ==
    IF msg.action = "MESSAGE" /\ msg.names # <<>> THEN <<msg.names[1]>> ELSE <<>>

\* _on_message: the names emitted on the message emitter, one for each entry
\* of a MESSAGE frame's payload, in payload order
message_names(msg) == IF msg.action = "MESSAGE" THEN msg.names ELSE <<>>

\* _on_message taking a DETACHED frame in whatever state the channel is
detached_always_applies(state) == TRUE

\* _on_message: the state in which a DETACHED frame is the awaited answer
detached_applies(state) == state = "detaching"

\* _on_message
on_message(msg) ==
    LET c0 == IF msg.channelSerial # "none"
              THEN [Chan EXCEPT !.serial = msg.channelSerial] ELSE Chan
        resumed == IF msg.flags # 0
                   THEN (IF has_flag(msg.flags, RESUMED) THEN "True" ELSE "False")
                   ELSE "None"
        update == [event |-> "update",
                   change |-> ChannelStateChange(c0.state, "attached", resumed,
                                                 msg.error)]
        c == IF msg.action = "ATTACHED"
             THEN IF c0.state = "attached"
                  THEN IF resumed # "True"
                       THEN [c0 EXCEPT !.pub = Append(@, update)]
                       ELSE c0
                  ELSE IF c0.state = "attaching"
                  THEN notify_state(c0, "attached", "none", resumed)
                  ELSE c0
             ELSE IF msg.action = "DETACHED"
             THEN IF detached_applies(c0.state)
                  THEN notify_state(c0, "detached", "none", "False")
                  ELSE c0
             ELSE c0
    IN  /\ sockOpen # {}
        /\ Commit(c)
        /\ Deliver(c, pc)
        /\ msgEmit' = message_names(msg)
        /\ LET emissions == [i \in DOMAIN message_names(msg) |->
                                emit(dataListeners, message_names(msg)[i])]
           IN  IF \A i \in DOMAIN emissions : emit_defers(emissions[i].name)
               THEN /\ scheduled' = scheduled \o emissions
                    /\ invoked' = <<>>
               ELSE /\ scheduled' = scheduled
                    /\ invoked' = invoke_each(emissions)
        /\ ret' = NoRet
        /\ opened' = 0
        /\ UNCHANGED <<cwait, dataListeners, op>>
        /\ ConnUnchanged

\* The event loop runs the delivery of the oldest emission not yet delivered.
deliver_scheduled ==
    /\ scheduled # <<>>
    /\ scheduled' = Tail(scheduled)
    /\ invoked' = invoke(Head(scheduled))
    /\ msgEmit' = <<>>
    /\ ret' = NoRet
    /\ opened' = 0
    /\ ChanUnchanged
    /\ UNCHANGED cwait
    /\ ConnUnchanged

\* on_timeout: a Timer that was not cancelled expires
on_timeout ==
    /\ \E i \in DOMAIN timers :
          LET c == timeout_pending_state(
                      [Chan EXCEPT !.timer = FALSE, !.timers = Without(@, i)],
                      connState)
          IN  Commit(c) /\ Deliver(c, pc)
    /\ ret' = NoRet
    /\ opened' = 0
    /\ NoEmit
    /\ UNCHANGED <<cwait, dataListeners, op>>
    /\ ConnUnchanged

\* ------------------------------------------------------------------ inputs
\* ATTACHED frames: no flags; flags without RESUMED, an error and a serial;
\* RESUMED and a serial
AttachedFrames ==
    { Message("ATTACHED", 0, "none", "none", <<>>),
      Message("ATTACHED", HAS_PRESENCE, "error", "s1", <<>>),
      Message("ATTACHED", RESUMED, "none", "s1", <<>>) }
DetachedFrames ==
    { Message("DETACHED", 0, "none", "none", <<>>),
      Message("DETACHED", 0, "none", "s1", <<>>) }
SubEvents == {"*"}
Listeners == {"L1"}
Payloads == {<<"a", "b">>}

AttachCall == \E t \in ChanTasks : Attach(t)
SubscribeCall == \E t \in ChanTasks, e \in SubEvents, l \in Listeners : subscribe(t, e, l)
AttachResume == \E t \in ChanTasks : attach_awaited(t)
DetachCall == \E t \in ChanTasks : detach(t)
DetachConnected == \E t \in ChanTasks : detach_connected(t)
DetachResume == \E t \in ChanTasks : detach_awaited(t)
RecvAttached == \E msg \in AttachedFrames : on_message(msg)
RecvDetached == \E msg \in DetachedFrames : on_message(msg)
TimerExpires == on_timeout

\* Futures created so far
Attempts == Cardinality({f \in Futures : futStatus[f] # "none"})

\* The channel is exercised over a connection driven by one connecting task,
\* one closing task and the read loop.
ChanConnect ==
    /\ connState \in {"connecting", "connected"} \/ Attempts <= MaxReconnects
    /\ connect("c1")
ChanConnectAwaited == connect_awaited("c1")

Next ==
    \/ ChanConnect
    \/ ChanConnectAwaited
    \/ Close
    \/ CloseResume
    \/ ConnectImpl
    \/ RecvConnected
    \/ RecvError
    \/ AttachCall
    \/ SubscribeCall
    \/ AttachResume
    \/ DetachCall
    \/ DetachConnected
    \/ DetachResume
    \/ RecvAttached
    \/ RecvDetached
    \/ TimerExpires

Spec == Init /\ [][Next]_vars

\* -------------------------------------------------------------- data plane
\* Emissions accepted while that many are waiting for their delivery
MaxScheduled == 2

\* The registrations made: two listeners on one name, one listener on two
\* names, a catch-all listener
DataSubs == {<<"a", "L1">>, <<"b", "L1">>, <<"a", "L2">>, <<"*", "L2">>}
\* The arguments of unsubscribe(): none, a listener, an event and a listener
UnsubArgs == {<<"*", "none">>, <<"*", "L1">>, <<"*", "L2">>,
              <<"a", "L1">>, <<"b", "L1">>, <<"a", "L2">>}

\* The connection is established and the channel has not been used: the state
\* after connect() returned.  In these behaviours the server answers every
\* ATTACH before the pending-state timer expires.
InitData ==
    /\ connState = "connected"
    /\ connFuture = 0
    /\ futStatus = [f \in Futures |-> IF f = 1 THEN "ok" ELSE "none"]
    /\ implPending = 0
    /\ sockets = 1
    /\ sockOpen = {1}
    /\ websocket = 1
    /\ cpc = [t \in ConnTasks |-> "idle"]
    /\ cwait = [t \in ConnTasks \cup ChanTasks |-> 0]
    /\ ccreator = [t \in ConnTasks |-> FALSE]
    /\ closePc = "idle"
    /\ closeSock = 0
    /\ chState = "initialized"
    /\ stateTimer = FALSE
    /\ timers = <<>>
    /\ attach_resume = FALSE
    /\ channel_serial = "none"
    /\ dataListeners = <<>>
    /\ scheduled = <<>>
    /\ pc = [t \in ChanTasks |-> "idle"]
    /\ op = [t \in ChanTasks |-> "none"]
    /\ note = [t \in ChanTasks |-> NoNote]
    /\ opened = 0
    /\ sent = <<>>
    /\ pubEmit = <<>>
    /\ intEmit = <<>>
    /\ msgEmit = <<>>
    /\ invoked = <<>>
    /\ ret = Ret("c1", "connect", "ok", "none", 1, FALSE)

SubscribeData == \E r \in DataSubs : subscribe("t1", r[1], r[2])
UnsubscribeCall == \E a \in UnsubArgs : unsubscribe(a[1], a[2])
RecvMessageData ==
    \E n \in Payloads :
        /\ Len(scheduled) + Len(n) <= MaxScheduled
        /\ on_message(Message("MESSAGE", 0, "none", "none", n))
DeliverScheduled == deliver_scheduled

NextData ==
    \/ SubscribeData
    \/ AttachResume
    \/ UnsubscribeCall
    \/ RecvAttached
    \/ RecvMessageData
    \/ DeliverScheduled

SpecData == InitData /\ [][NextData]_vars

\* ================================================================== claims

\* A task calls connect() while an attempt is outstanding (the connection is
\* Connecting and holds the completion handle).
ConnectJoinStep(t) ==
    /\ cpc[t] = "idle"
    /\ connState = "connecting"
    /\ connFuture # 0
    /\ connect(t)

\* C1: when connect() is called again before the CONNECTED frame arrives
\* (the attempt's completion handle is outstanding), the call starts no
\* transport and awaits the handle of the attempt under way, so that one
\* connect_impl task exists per attempt; and every caller awaiting a handle
\* returns if the handle was resolved by CONNECTED and raises the handle's
\* error if it was failed by a fatal ERROR.
C1_ConnectJoinsAttempt ==
    /\ [](implPending + sockets = Cardinality({f \in Futures : futStatus[f] # "none"}))
    /\ [][ \A t \in ConnTasks :
             /\ ConnectJoinStep(t) =>
                  /\ opened' = 0
                  /\ implPending' = implPending
                  /\ connFuture' = connFuture
                  /\ cpc'[t] = "await"
                  /\ cwait'[t] = connFuture
             /\ connect_awaited(t) =>
                  /\ ret'.task = t
                  /\ ret'.future = cwait[t]
                  /\ futStatus[cwait[t]] = "ok" =>
                        ret'.outcome = "ok"
                  /\ futStatus[cwait[t]] = "err" =>
                        ret'.outcome = "err" /\ ret'.reason = "auth"
                  /\ \A u \in ConnTasks \ {t} :
                        cpc[u] = "await" /\ cwait[u] = cwait[t] =>
                            /\ cpc'[u] = "await"
                            /\ futStatus'[cwait'[u]] = futStatus[cwait[t]]
         ]_vars

\* Two callers joined one attempt, a fatal ERROR failed it, one caller has
\* raised and the other is about to raise the same error.
C1_Witness ==
    /\ ret.op = "connect" /\ ret.outcome = "err" /\ ret.future # 0
    /\ \E u \in ConnTasks :
          /\ u # ret.task
          /\ cpc[u] = "await"
          /\ cwait[u] = ret.future
          /\ futStatus[ret.future] = "err"
    /\ implPending + sockets = 1

\* A task calls attach(), directly or through subscribe().
AttachStep(t) ==
    Attach(t) \/ \E e \in SubEvents, l \in Listeners : subscribe(t, e, l)

AttachOps == {"attach", "subscribe"}
IsAttachFrame(m) == m.action = "ATTACH"

\* C2: with the connection Connected, the attach() that moves the channel to
\* Attaching sends one ATTACH frame and an attach() called while the channel
\* is Attaching sends none and changes nothing; all the attach() calls
\* awaiting are resolved together by the one next state change, and each
\* returns when that change is to Attached and raises the carried reason when
\* it is to Suspended or Failed.
C2_AttachWhileAttaching ==
    [][ \A t \in ChanTasks :
          /\ (connState = "connected" /\ chState = "attaching" /\ AttachStep(t)) =>
                /\ sent' = <<>>
                /\ intEmit' = <<>>
                /\ chState' = "attaching"
                /\ stateTimer' = stateTimer
                /\ pc'[t] = "wait"
          /\ (connState = "connected" /\ chState \notin {"attaching", "attached"}
                /\ AttachStep(t)) =>
                /\ Len(sent') = 1 /\ IsAttachFrame(sent'[1])
                /\ chState' = "attaching"
                /\ pc'[t] = "wait"
          /\ (pc[t] = "wait" /\ op[t] \in AttachOps /\ pc'[t] # "wait") =>
                /\ Len(intEmit') = 1
                /\ \A u \in ChanTasks :
                      pc[u] = "wait" /\ op[u] \in AttachOps =>
                          /\ pc'[u] = "ready"
                          /\ note'[u] = Note(intEmit'[1].change)
                          /\ note'[u].current = chState'
          /\ attach_awaited(t) =>
                /\ note[t].current = "attached" => ret'.outcome = "ok"
                /\ note[t].current \in {"suspended", "failed"} =>
                      ret'.outcome = "err" /\ ret'.reason = note[t].reason
      ]_vars

\* Two attach() calls were awaiting while one ATTACH frame was out; the timer
\* suspended the channel, one call has raised the timeout and the other is
\* resolved with the same change.
C2_Witness ==
    /\ ret.op = "attach" /\ ret.outcome = "err" /\ ret.reason = "attach_timeout"
    /\ \E u \in ChanTasks :
          /\ u # ret.task
          /\ pc[u] = "ready" /\ op[u] = "attach"
          /\ note[u] = [current |-> "suspended", reason |-> "attach_timeout"]

\* C3: a step that changes the channel state emits exactly one
\* ChannelStateChange on the public emitter and exactly one on the internal
\* emitter, under the new state's name, with `previous` the state before the
\* step and `current` the state after it; a step that leaves the state as it
\* is emits no state change on either.
C3_OneChangePerTransition ==
    [][ /\ chState' # chState =>
            /\ Len(pubEmit') = 1 /\ Len(intEmit') = 1
            /\ pubEmit'[1] = intEmit'[1]
            /\ pubEmit'[1].event = chState'
            /\ pubEmit'[1].change.previous = chState
            /\ pubEmit'[1].change.current = chState'
        /\ chState' = chState =>
            /\ intEmit' = <<>>
            /\ \A i \in 1..Len(pubEmit') : pubEmit'[i].event = "update"
      ]_vars

\* The timer moved the channel from Detaching back to Attached and the change
\* was emitted on both emitters.
C3_Witness ==
    /\ Len(pubEmit) = 1 /\ Len(intEmit) = 1
    /\ pubEmit[1].change.previous = "detaching"
    /\ pubEmit[1].change.current = "attached"
    /\ intEmit[1].change.previous = "detaching"
    /\ chState = "attached"

\* C4: whenever subscribe() returns without raising, the channel is Attached
\* at that moment.
C4_SubscribeReturnsAttached ==
    (ret.op = "subscribe" /\ ret.outcome = "ok") => chState = "attached"

\* C5: the timer expiring while the channel is Attaching moves the channel to
\* Suspended with the attach-timeout reason, sends nothing and leaves no
\* timer armed; every attach() awaiting is resolved with that change and
\* raises the timeout reason; and while the channel is Suspended a frame is
\* sent only by a step in which a task calls attach().
C5_AttachTimeoutSuspends ==
    [][ /\ (chState = "attaching" /\ on_timeout) =>
            /\ chState' = "suspended"
            /\ sent' = <<>>
            /\ ~stateTimer'
            /\ Len(intEmit') = 1
            /\ intEmit'[1].change =
                  ChannelStateChange("attaching", "suspended", "False", "attach_timeout")
            /\ \A t \in ChanTasks :
                  pc[t] = "wait" =>
                      /\ pc'[t] = "ready"
                      /\ note'[t] = [current |-> "suspended", reason |-> "attach_timeout"]
        /\ \A t \in ChanTasks :
              (note[t].current = "suspended" /\ attach_awaited(t)) =>
                  /\ ret'.outcome = "err"
                  /\ ret'.reason = "attach_timeout"
        /\ chState = "suspended" =>
              /\ ~stateTimer
              /\ sent' # <<>> => \E t \in ChanTasks : AttachStep(t)
      ]_vars

\* The timer suspended an Attaching channel and the attach() awaiting has
\* raised the timeout reason.
C5_Witness ==
    /\ chState = "suspended"
    /\ ret.op = "attach" /\ ret.outcome = "err" /\ ret.reason = "attach_timeout"
    /\ ret.waited

\* C6: the timer expiring while the channel is Detaching moves the channel
\* back to Attached with the detach-timeout reason; every detach() awaiting is
\* resolved with that change and raises the timeout reason.
C6_DetachTimeoutFails ==
    [][ /\ (chState = "detaching" /\ on_timeout) =>
            /\ chState' = "attached"
            /\ Len(intEmit') = 1
            /\ intEmit'[1].change =
                  ChannelStateChange("detaching", "attached", "False", "detach_timeout")
            /\ \A t \in ChanTasks :
                  pc[t] = "wait" =>
                      /\ pc'[t] = "ready"
                      /\ note'[t] = [current |-> "attached", reason |-> "detach_timeout"]
        /\ \A t \in ChanTasks :
              (note[t] = [current |-> "attached", reason |-> "detach_timeout"]
                 /\ detach_awaited(t)) =>
                  /\ ret'.outcome = "err"
                  /\ ret'.reason = "detach_timeout"
      ]_vars

\* The timer put a Detaching channel back to Attached and the detach()
\* awaiting has raised the timeout reason.
C6_Witness ==
    /\ ret.op = "detach" /\ ret.outcome = "err" /\ ret.reason = "detach_timeout"
    /\ ret.waited

\* C7: an attach() that requests the Attaching state while the channel is
\* Detaching resolves every detach() awaiting with the change to Attaching,
\* and a detach() resolved with a change to Attaching raises the
\* superseded-by-attach conflict; a detach() that awaited returns only when
\* the change it is resolved with is to Detached.
C7_DetachSuperseded ==
    [][ \A t \in ChanTasks :
          /\ (chState = "detaching" /\ chState' = "attaching" /\ AttachStep(t)) =>
                \A u \in ChanTasks :
                    pc[u] = "wait" /\ op[u] = "detach" =>
                        /\ pc'[u] = "ready"
                        /\ note'[u].current = "attaching"
          /\ detach_awaited(t) =>
                /\ note[t].current = "attaching" =>
                      ret'.outcome = "err" /\ ret'.reason = "superseded"
                /\ ret'.outcome = "ok" => note[t].current = "detached"
      ]_vars

\* A detach() was awaiting when attach() was requested, and has raised the
\* conflict.
C7_Witness ==
    /\ ret.op = "detach" /\ ret.outcome = "err" /\ ret.reason = "superseded"
    /\ ret.waited

\* C8: attach() on an Attached channel sends nothing, leaves the state and
\* the timer as they are, emits nothing on either emitter, resolves no
\* awaiting call and returns at once.
C8_AttachOnAttachedNoop ==
    [][ \A t \in ChanTasks :
          (chState = "attached" /\ Attach(t)) =>
              /\ sent' = <<>>
              /\ chState' = "attached"
              /\ stateTimer' = stateTimer
              /\ attach_resume' = attach_resume
              /\ pubEmit' = <<>>
              /\ intEmit' = <<>>
              /\ pc' = pc
              /\ ret' = Ret(t, "attach", "ok", "none", 0, FALSE)
      ]_vars

\* attach() has returned at once on an Attached channel.
C8_Witness ==
    /\ chState = "attached"
    /\ ret.op = "attach" /\ ret.outcome = "ok" /\ ~ret.waited

\* C9: detach() on a Suspended channel, the connection not Closing, moves the
\* channel to Detached in the same step, returns at once, sends nothing and
\* arms no timer.
C9_DetachSuspendedDirect ==
    [][ \A t \in ChanTasks :
          (chState = "suspended" /\ connState # "closing" /\ detach(t)) =>
              /\ chState' = "detached"
              /\ sent' = <<>>
              /\ ~stateTimer'
              /\ pc'[t] = "idle"
              /\ ret' = Ret(t, "detach", "ok", "none", 0, FALSE)
      ]_vars

\* detach() has returned at once, the channel having gone from Suspended to
\* Detached.
C9_Witness ==
    /\ chState = "detached"
    /\ ret.op = "detach" /\ ret.outcome = "ok" /\ ~ret.waited
    /\ Len(pubEmit) = 1
    /\ pubEmit[1].change.previous = "suspended"

\* C10: an ATTACHED frame without the resumed flag, received while the
\* channel is Attached, emits exactly one `update` on the public emitter, its
\* change from Attached to Attached, and nothing on the internal emitter; the
\* channel stays Attached and no awaiting call is resolved.
C10_UpdateOnAttached ==
    [][ \A msg \in AttachedFrames :
          (chState = "attached" /\ (msg.flags \div RESUMED) % 2 = 0
             /\ on_message(msg)) =>
              /\ Len(pubEmit') = 1
              /\ pubEmit'[1].event = "update"
              /\ pubEmit'[1].change.previous = "attached"
              /\ pubEmit'[1].change.current = "attached"
              /\ intEmit' = <<>>
              /\ chState' = "attached"
              /\ stateTimer' = stateTimer
              /\ pc' = pc
      ]_vars

\* An `update` was emitted for an ATTACHED frame whose flags are set and do
\* not include RESUMED.
C10_Witness ==
    /\ chState = "attached"
    /\ Len(pubEmit) = 1
    /\ pubEmit[1].event = "update"
    /\ pubEmit[1].change.resumed = "False"
    /\ intEmit = <<>>

\* C11: once the connection state is Closed it never changes again: no
\* connect(), close(), inbound CONNECTED or ERROR frame, or resumption of a
\* connect() suspended before the close moves a Closed connection to
\* Connecting or Connected.
C11_ClosedIsFinal == [][connState = "closed" => connState' = "closed"]_vars

\* C16: in every reachable state the connection holds a completion handle if
\* and only if a connect attempt is outstanding (state Connecting), and the
\* handle it holds is one that is not resolved yet: after a fatal ERROR or a
\* close() the connection is neither Connecting without a handle nor holding
\* an unresolved handle outside Connecting.
C16_HandleIffConnecting ==
    /\ connFuture # 0 <=> connState = "connecting"
    /\ connFuture # 0 => futStatus[connFuture] = "pending"

C13_RaisingListenerIsolated ==
    [][ deliver_scheduled =>
          /\ Len(invoked') = Len(scheduled[1].regs)
          /\ \A i \in DOMAIN scheduled[1].regs :
                /\ invoked'[i].listener = scheduled[1].regs[i][2]
                /\ invoked'[i].on = scheduled[1].regs[i][1]
                /\ invoked'[i].raised = (scheduled[1].regs[i][2] \in Raising)
          /\ ret'.outcome # "err"
          /\ pc' = pc
          /\ note' = note
          /\ chState' = chState
      ]_vars

\* An emission was delivered to a listener that raised and then to a listener
\* registered after it.
C13_Witness ==
    \E i, j \in DOMAIN invoked :
        /\ i < j
        /\ invoked[i].raised
        /\ ~invoked[j].raised

\* C14: unsubscribe(event, listener) removes that pairing and only it: after
\* the call the pairing is not registered, every other registration (other
\* listeners on the event, the listener on other events, catch-all listeners)
\* is in place in its order, and an emission is for registrations in place
\* when it is made only, so that no later emission of the event invokes the
\* listener through the removed pairing.
C14_OffRemovesPairing ==
    [][ /\ \A a \in UnsubArgs :
              (a[1] # "*" /\ a[2] # "none" /\ unsubscribe(a[1], a[2])) =>
                  /\ \A k \in DOMAIN dataListeners' : dataListeners'[k] # a
                  /\ dataListeners' = SelectSeq(dataListeners, LAMBDA r : r # a)
                  /\ \A r \in DataSubs \ {a} :
                        (\E k \in DOMAIN dataListeners : dataListeners[k] = r)
                            => \E k \in DOMAIN dataListeners' : dataListeners'[k] = r
        /\ \A i \in DOMAIN scheduled' :
              i > Len(scheduled) =>
                  \A j \in DOMAIN scheduled'[i].regs :
                      \E k \in DOMAIN dataListeners :
                          dataListeners[k] = scheduled'[i].regs[j]
      ]_vars

\* unsubscribe("a", L1) has just returned: the pairing, which an emission made
\* before the call is still for, is gone, while the other listener on "a", the
\* pairing of L1 with "b" and the catch-all listener are registered.
C14_Witness ==
    /\ ret.op = "unsubscribe"
    /\ dataListeners = <<<<"b", "L1">>, <<"a", "L2">>, <<"*", "L2">>>>
    /\ scheduled # <<>>
    /\ scheduled[1].regs = <<<<"a", "L1">>, <<"a", "L2">>, <<"*", "L2">>>>

\* A registration is one of those in the sequence
Registered(regs, r) == \E k \in DOMAIN regs : regs[k] = r

\* C15: a MESSAGE frame makes one emission for each payload entry, in payload
\* order, for every listener registered for the entry's name and every
\* catch-all listener, each once, and for no listener registered for another
\* name only; the emissions are delivered in that order and a delivery
\* invokes each of the emission's listeners once with the entry, and no other
\* listener; the frame leaves the channel's state and timer as they are,
\* emits no state change and sends nothing.
C15_MessageDispatch ==
    [][ /\ \A n \in Payloads :
              on_message(Message("MESSAGE", 0, "none", "none", n)) =>
                  /\ chState' = chState
                  /\ stateTimer' = stateTimer
                  /\ pubEmit' = <<>>
                  /\ intEmit' = <<>>
                  /\ sent' = <<>>
                  /\ Len(scheduled') = Len(scheduled) + Len(n)
                  /\ \A i \in DOMAIN scheduled :
                        scheduled'[i] = scheduled[i]
                  /\ \A i \in DOMAIN n :
                        LET e == scheduled'[Len(scheduled) + i]
                        IN  /\ e.name = n[i]
                            /\ \A r \in DataSubs :
                                  Cardinality({j \in DOMAIN e.regs : e.regs[j] = r})
                                    = IF /\ Registered(dataListeners, r)
                                         /\ r[1] \in {n[i], "*"}
                                      THEN 1 ELSE 0
        /\ deliver_scheduled =>
              /\ \A i \in DOMAIN invoked' : invoked'[i].name = scheduled[1].name
              /\ \A r \in DataSubs :
                    Cardinality({i \in DOMAIN invoked' :
                                    /\ invoked'[i].on = r[1]
                                    /\ invoked'[i].listener = r[2]})
                      = IF Registered(scheduled[1].regs, r) THEN 1 ELSE 0
              /\ scheduled' = Tail(scheduled)
      ]_vars

\* A MESSAGE frame with the entries "a" and "b" was handled on an Attached
\* channel with all four registrations made: the emission of "a" is for three
\* of them and the emission of "b" for two.
C15_Witness ==
    /\ chState = "attached"
    /\ msgEmit = <<"a", "b">>
    /\ Len(dataListeners) = 4
    /\ Len(scheduled) = 2
    /\ Len(scheduled[1].regs) = 3
    /\ Len(scheduled[2].regs) = 2
    /\ \A j \in DOMAIN scheduled[2].regs : scheduled[2].regs[j] # <<"a", "L1">>

\* The frames a pending state asks for
PendingFrame(state) == IF state = "attaching" THEN "ATTACH" ELSE "DETACH"

\* C17: no step taken while the connection is not Connected sends an ATTACH
\* or DETACH frame or arms a pending-state timer: a request for Attaching or
\* Detaching made then changes the channel's state only.  The frame is sent,
\* with a timer armed, by the pending-state check made in the step in which
\* the connection becomes Connected.
C17_NoFrameUnlessConnected ==
    [][ /\ connState' # "connected" =>
              /\ sent' = <<>>
              /\ Len(timers') <= Len(timers)
              /\ stateTimer' => stateTimer
        /\ (connState # "connected" /\ connState' = "connected"
              /\ chState \in {"attaching", "detaching"}) =>
              /\ chState' = chState
              /\ Len(sent') = 1
              /\ sent'[1].action = PendingFrame(chState)
              /\ stateTimer'
      ]_vars

\* attach() was called while the connection is Connecting: the channel is
\* Attaching, the change was emitted, no frame was sent and no timer is armed.
C17_Witness ==
    /\ connState = "connecting"
    /\ chState = "attaching"
    /\ Len(pubEmit) = 1
    /\ pubEmit[1].event = "attaching"
    /\ sent = <<>>
    /\ ~stateTimer
    /\ timers = <<>>

\* C18: at most one pending-state timer is armed at any time, it is the one
\* the channel refers to, and it is armed only while the channel is Attaching
\* or Detaching and was armed in the state the channel is in: every
\* transition to a new state has disarmed the timer of the state before, so
\* that no timer expires into a later state or a later negotiation.
C18_OneTimerPerNegotiation ==
    /\ Len(timers) <= 1
    /\ stateTimer <=> timers # <<>>
    /\ \A i \in DOMAIN timers :
          /\ chState \in {"attaching", "detaching"}
          /\ timers[i] = chState

\* detach() was called on an Attaching channel of a Connected connection: the
\* one timer armed is the one armed for Detaching.
C18_Witness ==
    /\ chState = "detaching"
    /\ Len(pubEmit) = 1
    /\ pubEmit[1].change.previous = "attaching"
    /\ connState = "connected"
    /\ stateTimer
    /\ timers = <<"detaching">>

\* What an ignored frame leaves alone: the channel's state and timer, the
\* calls awaiting a state change, with no emission and no frame sent.
FrameIgnored ==
    /\ chState' = chState
    /\ stateTimer' = stateTimer
    /\ timers' = timers
    /\ pubEmit' = <<>>
    /\ intEmit' = <<>>
    /\ sent' = <<>>
    /\ pc' = pc
    /\ note' = note

\* C19: an unsolicited acknowledgement is ignored: a DETACHED frame received
\* in a state other than Detaching and an ATTACHED frame received in a state
\* other than Attaching or Attached leave the channel's state and its timer
\* unchanged, emit no state change and resolve no awaiting attach() or
\* detach(): a step from such a state that does not leave all of these alone
\* is not the handling of such a frame (in which no call returns).
C19_UnsolicitedAckIgnored ==
    [][ (ret' = NoRet /\ ~FrameIgnored) =>
          /\ chState # "detaching" =>
                \A msg \in DetachedFrames : ~on_message(msg)
          /\ chState \notin {"attaching", "attached"} =>
                \A msg \in AttachedFrames : ~on_message(msg)
      ]_vars

\* A frame carrying a channel serial reached the channel after it became
\* Suspended (which clears the serial): the channel is still Suspended, and a
\* call resolved by the suspension has yet to resume.
C19_Witness ==
    /\ chState = "suspended"
    /\ channel_serial = "s1"
    /\ ~stateTimer
    /\ pubEmit = <<>>
    /\ \E t \in ChanTasks : pc[t] = "ready" /\ note[t].current = "suspended"

\* C20: the attach-resume flag is false at the start, becomes true in the
\* steps that take the channel to Attached, becomes false in the steps that
\* take it to Detaching or Failed and is changed by no other step (into
\* Attaching, Detached or Suspended), so that it is true only if the channel
\* has reached Attached and has not entered Detaching or Failed since; and
\* every ATTACH frame carries the flag as it is when the frame is sent.
C20_AttachResumeFlag ==
    /\ ~attach_resume
    /\ [][ /\ attach_resume' =
                IF chState' # chState /\ chState' = "attached" THEN TRUE
                ELSE IF chState' # chState /\ chState' \in {"detaching", "failed"}
                THEN FALSE
                ELSE attach_resume
           /\ \A i \in DOMAIN sent' :
                 sent'[i].action = "ATTACH" => sent'[i].resume = attach_resume'
         ]_vars

\* detach() was called on an Attached channel, whose flag was true: the flag
\* is false in Detaching.
C20_Witness ==
    /\ chState = "detaching"
    /\ ~attach_resume
    /\ Len(pubEmit) = 1
    /\ pubEmit[1].change.previous = "attached"

\* ---------------------------------------------------------------- liveness
\* The channel's negotiations over an established connection that may be
\* closed: the calls, the frames, the timer.  An expiring timer expires, the
\* frames of an open transport are delivered and a call that can resume does.
NextLive ==
    \/ AttachCall
    \/ AttachResume
    \/ DetachCall
    \/ DetachResume
    \/ RecvAttached
    \/ RecvDetached
    \/ TimerExpires
    \/ Close
    \/ CloseResume

SpecLive ==
    /\ InitData
    /\ [][NextLive]_vars
    /\ WF_vars(TimerExpires)
    /\ WF_vars(RecvAttached)
    /\ WF_vars(RecvDetached)
    /\ WF_vars(AttachResume)
    /\ WF_vars(DetachResume)
    /\ WF_vars(CloseResume)

\* C21: a channel that has entered Attaching or Detaching does not stay in
\* a pending state forever: it eventually is Attached, Detached or Suspended,
\* and every attach() or detach() call awaiting a state change eventually
\* returns or raises.  (In these behaviours the connection is Connected from
\* the start until it is closed, so that every negotiation that a call awaits
\* began while it was Connected or was refused.)
C21_PendingStateEnds ==
    /\ (chState \in {"attaching", "detaching"})
          ~> (chState \in {"attached", "detached", "suspended"})
    /\ \A t \in ChanTasks : (pc[t] = "wait") ~> (pc[t] = "idle")

====
